---- MODULE Spec2Model ----
(***************************************************************************)
(* Model of ansible-rs: the concurrent fan-out of src/lib.rs               *)
(* (ParallelSshProps::parallel_ssh_process, process_host,                  *)
(* process_host_inner) and the calibrator of src/misc.rs (benchmark).      *)
(*                                                                         *)
(* Strings are sequences of tokens, so that format!() is concatenation and *)
(* str::contains is a search for a token.  Durations are milliseconds.     *)
(***************************************************************************)
EXTENDS Integers, Sequences, FiniteSets, TLC

\* ---------------------------------------------------------------- bounds
MaxHosts == 2
MaxPermits == 2
MaxBenchHosts == 11
MaxThreadsNumber == 5
MaxItems == 3

\* ------------------------------------------------------------- constants
\* const TIMEOUT: u32 = 6000 (process_host_inner)
TIMEOUT == 6000

HostNames == {"10.0.0.1:22", "10.0.0.2:22"}
Commands == {"uptime"}
\* Duration::new(1, 0) and Duration::from_secs(600), the defaults of new()
SocketTimeouts == {1000}
SshTimeouts == {600000}
\* what the remote command may print
Outputs == {<<>>, <<"up 3 days">>}
\* Display of the errors of the collaborators (std::io, ssh2)
IoErrors == {<<"connection timed out">>}
SshErrors == {<<"[-42]", " Failed getting banner">>}

NoSession == -1
NoBuffer == <<"<unset>">>

SeqsUpTo(S, n) == UNION {[1..k -> S] : k \in 0..n}

VARIABLES
    props,          \* ParallelSshProps
    hosts,          \* Vec<A> given to parallel_ssh_process
    command,        \* &str given to parallel_ssh_process
    called,         \* parallel_ssh_process has run
    threads_pool,   \* num_of_threads: Semaphore
    agent_pool,     \* agent_parallelism: Semaphore
    pc,             \* per future: the next operation of process_host_inner
    threads_guard,  \* per future: _threads_guard is live
    guard,          \* per future: guard is live
    sess_timeout,   \* per future: the timeout set on sess
    channel_buffer, \* per future: channel_buffer once read
    yielded,        \* Responses the FuturesUnordered has yielded, in order
    acquires,       \* per pool: permits handed out so far
    releases        \* per pool: permits dropped so far

VARIABLES
    b_pc,               \* benchmark: position ("idle" outside a benchmark)
    hosts_len,          \* benchmark: hosts.len()
    threads_number,     \* benchmark: threads_number
    rate_numeric,       \* benchmark: rate_numeric
    error_rate,         \* benchmark: error_rate (f64)
    bench_hosts_number, \* benchmark: bench_hosts_number
    rounds              \* benchmark: the probe rounds run so far

VARIABLES
    s_pc,       \* result sink: position ("idle" outside a run of the sink)
    rx,         \* the Responses still to come out of rx (or the data to save)
    received,   \* the Responses rx.recv() has returned, in order
    queue_len,  \* incremental_save: queue_len
    file,       \* the result document as written so far
    ledger,     \* the failed_hosts file as written so far
    ok_count,   \* incremental_save: ok
    error_count, \* incremental_save: ko
    total,      \* the progress bar: position and message
    console     \* what has been printed to stdout

VARIABLES
    m_pc,       \* failure messages: position ("idle" outside)
    m_cases,    \* the failures injected into two runs of process_host
    m_out       \* the Responses of the two runs

sinkVars == <<s_pc, rx, received, queue_len, file, ledger, ok_count, error_count,
              total, console>>

msgVars == <<m_pc, m_cases, m_out>>

benchVars == <<b_pc, hosts_len, threads_number, rate_numeric, error_rate,
               bench_hosts_number, rounds>>

fanVars == <<props, hosts, command, called, threads_pool, agent_pool, pc,
             threads_guard, guard, sess_timeout, channel_buffer, yielded,
             acquires, releases>>

vars == <<fanVars, benchVars, sinkVars, msgVars>>

\* A text file is a sequence of tokens. The result document is a sequence of
\* lexemes, of which an "object" carries its Response.
NoResponse == [result |-> <<>>, hostname |-> <<>>, process_time |-> "", status |-> FALSE]
Lex(l) == [lex |-> l, obj |-> NoResponse]

\* a text file, a result document that does not exist
NoFile == <<"<no file>">>
NoDoc == <<Lex("<no file>")>>

\* the values of the variables of the parts that are not running
IdleSink ==
    /\ s_pc = "idle"
    /\ rx = <<>>
    /\ received = <<>>
    /\ queue_len = 0
    /\ file = NoDoc
    /\ ledger = NoFile
    /\ ok_count = 0
    /\ error_count = 0
    /\ total = [pos |-> 0, msg |-> <<>>]
    /\ console = <<>>

IdleMsg ==
    /\ m_pc = "idle"
    /\ m_cases = <<>>
    /\ m_out = <<>>

\* --------------------------------------------------------------- Semaphore
\* tokio::sync::Semaphore: a permit counter and a FIFO queue of waiters; a
\* released permit goes to the oldest waiter, else back to the counter.
SemNew(n) == [permits |-> n, waiters |-> <<>>]

SemCanAcquire_offbyone(sem) == sem.permits >= 0

SemCanAcquire(sem) == sem.permits > 0

SemAcquire(sem, p) ==
    IF SemCanAcquire(sem)
    THEN [sem EXCEPT !.permits = @ - 1]
    ELSE [sem EXCEPT !.waiters = Append(@, p)]

SemHasWaiter(sem) == sem.waiters # <<>>

SemRelease(sem) ==
    IF SemHasWaiter(sem)
    THEN [sem EXCEPT !.waiters = Tail(@)]
    ELSE [sem EXCEPT !.permits = @ + 1]

\* --------------------------------------------------------------- Response
\* process_host: match result { Ok(a) => .., Err(e) => .. }
Ok(a) == [ok |-> TRUE, val |-> a]
Err(e) == [ok |-> FALSE, val |-> e]

ProcessHostResponse_alwaysok(hostname, result) ==
    [result |-> result.val, hostname |-> hostname, status |-> TRUE]

ProcessHostResponse(hostname, result) ==
    IF result.ok
    THEN [result |-> result.val, hostname |-> hostname, status |-> TRUE]
    ELSE [result |-> result.val, hostname |-> hostname, status |-> FALSE]

\* ------------------------------------------------------------------- Init
Init ==
    /\ props \in [maximum_connections : 0..MaxPermits,
                  agent_parallelism : 0..MaxPermits,
                  timeout_socket : SocketTimeouts,
                  timeout_ssh : SshTimeouts]
    /\ hosts \in SeqsUpTo(HostNames, MaxHosts)
    /\ command \in Commands
    /\ called = FALSE
    /\ threads_pool = SemNew(0)
    /\ agent_pool = SemNew(0)
    /\ pc = <<>>
    /\ threads_guard = <<>>
    /\ guard = <<>>
    /\ sess_timeout = <<>>
    /\ channel_buffer = <<>>
    /\ yielded = <<>>
    /\ acquires = [threads |-> 0, agent |-> 0]
    /\ releases = [threads |-> 0, agent |-> 0]
    /\ b_pc = "idle"
    /\ hosts_len = 0
    /\ threads_number = 0
    /\ rate_numeric = 0
    /\ error_rate = [nan |-> FALSE, num |-> 0, den |-> 1]
    /\ bench_hosts_number = 0
    /\ rounds = <<>>
    /\ IdleSink
    /\ IdleMsg

\* ---------------------------------------------------------------- actions
\* parallel_ssh_process: both semaphores, one future per host
PushedFutures_skiplast(hs) == 1..(Len(hs) - 1)

PushedFutures(hs) == 1..Len(hs)

ParallelSshProcess ==
    /\ ~called
    /\ called' = TRUE
    /\ threads_pool' = SemNew(props.maximum_connections)
    /\ agent_pool' = SemNew(props.agent_parallelism)
    /\ pc' = [p \in PushedFutures(hosts) |-> "start"]
    /\ threads_guard' = [p \in PushedFutures(hosts) |-> FALSE]
    /\ guard' = [p \in PushedFutures(hosts) |-> FALSE]
    /\ sess_timeout' = [p \in PushedFutures(hosts) |-> NoSession]
    /\ channel_buffer' = [p \in PushedFutures(hosts) |-> NoBuffer]
    /\ UNCHANGED <<props, hosts, command, yielded, acquires, releases>>
    /\ UNCHANGED <<benchVars, sinkVars, msgVars>>

\* the permit of a dropped guard goes to the oldest waiter, who resumes at
\* the statement after its acquire().await
Resumed_lostwakeup(sem) == {}

Resumed(sem) == IF SemHasWaiter(sem) THEN {Head(sem.waiters)} ELSE {}

\* let _threads_guard = threads_pool.acquire().await
AcquireThreads(p) ==
    /\ pc[p] = "start"
    /\ threads_pool' = SemAcquire(threads_pool, p)
    /\ IF SemCanAcquire(threads_pool)
       THEN /\ threads_guard' = [threads_guard EXCEPT ![p] = TRUE]
            /\ acquires' = [acquires EXCEPT !.threads = @ + 1]
            /\ pc' = [pc EXCEPT ![p] = "resolve"]
       ELSE /\ pc' = [pc EXCEPT ![p] = "wait_threads"]
            /\ UNCHANGED <<threads_guard, acquires>>
    /\ UNCHANGED <<props, hosts, command, called, agent_pool, guard,
                   sess_timeout, channel_buffer, yielded, releases>>
    /\ UNCHANGED <<benchVars, sinkVars, msgVars>>

\* the guards that go out of scope when process_host_inner returns from the
\* position of p: guard (if still live), then _threads_guard
DroppedAtReturn_leakagent(p) ==
    IF threads_guard[p] THEN {"threads"} ELSE {}

DroppedAtReturn(p) ==
    (IF guard[p] THEN {"agent"} ELSE {}) \cup (IF threads_guard[p] THEN {"threads"} ELSE {})

\* p moves to `next` and drops the guards named in `drops`
Advance(p, next, drops) ==
    LET wa == IF "agent" \in drops THEN Resumed(agent_pool) ELSE {}
        wt == IF "threads" \in drops THEN Resumed(threads_pool) ELSE {}
    IN  /\ agent_pool' = IF "agent" \in drops THEN SemRelease(agent_pool) ELSE agent_pool
        /\ threads_pool' = IF "threads" \in drops THEN SemRelease(threads_pool) ELSE threads_pool
        /\ guard' = [q \in DOMAIN guard |->
                        IF q = p THEN guard[p] /\ "agent" \notin drops
                        ELSE guard[q] \/ q \in wa]
        /\ threads_guard' = [q \in DOMAIN threads_guard |->
                        IF q = p THEN threads_guard[p] /\ "threads" \notin drops
                        ELSE threads_guard[q] \/ q \in wt]
        /\ pc' = [q \in DOMAIN pc |->
                        IF q = p THEN next
                        ELSE IF q \in wt THEN "resolve"
                        ELSE IF q \in wa THEN "agent_connect"
                        ELSE pc[q]]
        /\ acquires' = [threads |-> acquires.threads + Cardinality(wt),
                        agent |-> acquires.agent + Cardinality(wa)]
        /\ releases' = [threads |-> releases.threads + (IF "threads" \in drops THEN 1 ELSE 0),
                        agent |-> releases.agent + (IF "agent" \in drops THEN 1 ELSE 0)]
        /\ UNCHANGED <<benchVars, sinkVars, msgVars>>

\* an operation succeeded: on to the next one
Goto(p, next) ==
    /\ Advance(p, next, {})
    /\ UNCHANGED <<props, hosts, command, called, sess_timeout, channel_buffer, yielded>>

\* process_host_inner returns `result`; process_host turns it into the
\* Response, which the FuturesUnordered yields
Return(p, result) ==
    /\ Advance(p, IF result.ok THEN "done_ok" ELSE "done_err", DroppedAtReturn(p))
    /\ yielded' = Append(yielded, ProcessHostResponse(hosts[p], result))
    /\ sess_timeout' = [sess_timeout EXCEPT ![p] = NoSession]
    /\ channel_buffer' = [channel_buffer EXCEPT ![p] = NoBuffer]
    /\ UNCHANGED <<props, hosts, command, called>>

\* the operations of process_host_inner that can fail
FailureSites ==
    {"to_socket_addrs", "next", "connect_timeout", "Async::new", "Session::new",
     "set_tcp_stream", "handshake", "agent", "agent.connect", "userauth_agent",
     "channel_session", "exec", "read_to_string"}

\* the errors of the collaborator behind each operation (<<>>: it reports none)
SiteErrors(site) ==
    CASE site \in {"to_socket_addrs", "connect_timeout", "Async::new", "read_to_string"} -> IoErrors
      [] site \in {"next", "Session::new"} -> {<<>>}
      [] OTHER -> SshErrors

\* the text of the anyhow::Error process_host_inner returns when `site`
\* fails with e: e itself where the code uses a bare ?, the text of the
\* Error::msg where it uses ok_or or map_err
FailureMessage(site, e) ==
    CASE site \in {"to_socket_addrs", "connect_timeout", "Async::new",
                   "set_tcp_stream", "agent.connect"} -> e
      [] site = "next" -> <<"Failed converting address">>
      [] site = "Session::new" -> <<"Error initializing session">>
      [] site = "handshake" -> <<"Failed establishing handshake: ">> \o e
      [] site = "agent" -> <<"Failed connecting to agent: ">> \o e
      [] site = "userauth_agent" -> <<"Error connecting via agent: ">> \o e
      [] site = "channel_session" -> <<"Failed opening channel: ">> \o e
      [] site = "exec" -> <<"Failed executing command in channel: ">> \o e
      [] site = "read_to_string" -> <<"Error reading result of work: ">> \o e

\* `site` fails in the future of host p
Fails(p, site) ==
    \E e \in SiteErrors(site) : Return(p, Err(FailureMessage(site, e)))

\* hostname.to_socket_addrs()?.next().ok_or(..)?
Resolve(p) ==
    /\ pc[p] = "resolve"
    /\ \/ Goto(p, "connect")
       \/ Fails(p, "to_socket_addrs")
       \/ Fails(p, "next")

\* TcpStream::connect_timeout(..)?; Async::new(sync_stream)?
Connect(p) ==
    /\ pc[p] = "connect"
    /\ \/ Goto(p, "session")
       \/ Fails(p, "connect_timeout")
       \/ Fails(p, "Async::new")

\* the timeout process_host_inner sets on the new session
SessionTimeout(cfg) == TIMEOUT

\* Session::new().map_err(..)?; sess.set_timeout(TIMEOUT); sess.set_tcp_stream(tcp)?
SessionNew(p) ==
    /\ pc[p] = "session"
    /\ \/ /\ Advance(p, "handshake", {})
          /\ sess_timeout' = [sess_timeout EXCEPT ![p] = SessionTimeout(props)]
          /\ UNCHANGED <<props, hosts, command, called, channel_buffer, yielded>>
       \/ Fails(p, "Session::new")
       \/ Fails(p, "set_tcp_stream")

\* sess.handshake().await.map_err(..)?
Handshake(p) ==
    /\ pc[p] = "handshake"
    /\ \/ Goto(p, "acquire_agent")
       \/ Fails(p, "handshake")

\* let guard = agent_pool.acquire().await
AcquireAgent(p) ==
    /\ pc[p] = "acquire_agent"
    /\ agent_pool' = SemAcquire(agent_pool, p)
    /\ IF SemCanAcquire(agent_pool)
       THEN /\ guard' = [guard EXCEPT ![p] = TRUE]
            /\ acquires' = [acquires EXCEPT !.agent = @ + 1]
            /\ pc' = [pc EXCEPT ![p] = "agent_connect"]
       ELSE /\ pc' = [pc EXCEPT ![p] = "wait_agent"]
            /\ UNCHANGED <<guard, acquires>>
    /\ UNCHANGED <<props, hosts, command, called, threads_pool, threads_guard,
                   sess_timeout, channel_buffer, yielded, releases>>
    /\ UNCHANGED <<benchVars, sinkVars, msgVars>>

\* sess.agent().map_err(..)?; agent.connect().await?
AgentConnect(p) ==
    /\ pc[p] = "agent_connect"
    /\ \/ Goto(p, "userauth")
       \/ Fails(p, "agent")
       \/ Fails(p, "agent.connect")

\* the guards process_host_inner drops once userauth_agent has succeeded
DroppedAfterAuth_nodrop == {}

DroppedAfterAuth_both == {"agent", "threads"}

DroppedAfterAuth == {"agent"}

\* sess.userauth_agent("scan").await.map_err(..)?; drop(guard)
UserauthAgent(p) ==
    /\ pc[p] = "userauth"
    /\ \/ /\ Advance(p, "channel", DroppedAfterAuth)
          /\ UNCHANGED <<props, hosts, command, called, sess_timeout, channel_buffer, yielded>>
       \/ Fails(p, "userauth_agent")

\* sess.channel_session().await.map_err(..)?
ChannelSession(p) ==
    /\ pc[p] = "channel"
    /\ \/ Goto(p, "exec")
       \/ Fails(p, "channel_session")

\* channel.exec(&command).await.map_err(..)?
Exec(p) ==
    /\ pc[p] = "exec"
    /\ \/ Goto(p, "read")
       \/ Fails(p, "exec")

\* reader.read_to_string(&mut channel_buffer).await.map_err(..)?
ReadToString(p) ==
    /\ pc[p] = "read"
    /\ \/ \E out \in Outputs :
            /\ Advance(p, "return", {})
            /\ channel_buffer' = [channel_buffer EXCEPT ![p] = out]
            /\ UNCHANGED <<props, hosts, command, called, sess_timeout, yielded>>
       \/ Fails(p, "read_to_string")

\* Ok(channel_buffer)
ReturnOk(p) ==
    /\ pc[p] = "return"
    /\ Return(p, Ok(channel_buffer[p]))

\* one poll of the future of host p by the FuturesUnordered
Poll(p) ==
    \/ AcquireThreads(p)
    \/ Resolve(p)
    \/ Connect(p)
    \/ SessionNew(p)
    \/ Handshake(p)
    \/ AcquireAgent(p)
    \/ AgentConnect(p)
    \/ UserauthAgent(p)
    \/ ChannelSession(p)
    \/ Exec(p)
    \/ ReadToString(p)
    \/ ReturnOk(p)

Next ==
    \/ ParallelSshProcess
    \/ \E p \in DOMAIN pc : Poll(p)

Spec == Init /\ [][Next]_vars

\* The consumer keeps polling the stream and every blocking operation
\* returns: a future that can make a step eventually makes one.
\* Scheduling does not depend on the names of the hosts nor on the
\* timeouts: one host list per length, the default timeouts, and pools
\* that can hand out a permit at all.
InitFair ==
    /\ Init
    /\ props.maximum_connections >= 1
    /\ props.agent_parallelism >= 1
    /\ props.timeout_ssh = 600000
    /\ \A i \in DOMAIN hosts : hosts[i] = "10.0.0.1:22"

FairSpec ==
    /\ InitFair
    /\ [][Next]_vars
    /\ WF_vars(ParallelSshProcess)
    /\ \A p \in 1..MaxHosts : WF_vars(p \in DOMAIN pc /\ Poll(p))

\* ===================================================== failure messages
\* process_host on one host whose pipeline fails at a given operation:
\* two such runs side by side, to compare their Responses.
FailureCases == {[site |-> st, err |-> e] : st \in FailureSites, e \in IoErrors \cup SshErrors \cup {<<>>}}

InitMsg ==
    /\ props = [maximum_connections |-> 1, agent_parallelism |-> 1,
                timeout_socket |-> 1000, timeout_ssh |-> 600000]
    /\ hosts = <<>>
    /\ command \in Commands
    /\ called = FALSE
    /\ threads_pool = SemNew(0)
    /\ agent_pool = SemNew(0)
    /\ pc = <<>>
    /\ threads_guard = <<>>
    /\ guard = <<>>
    /\ sess_timeout = <<>>
    /\ channel_buffer = <<>>
    /\ yielded = <<>>
    /\ acquires = [threads |-> 0, agent |-> 0]
    /\ releases = [threads |-> 0, agent |-> 0]
    /\ b_pc = "idle"
    /\ hosts_len = 0
    /\ threads_number = 0
    /\ rate_numeric = 0
    /\ error_rate = [nan |-> FALSE, num |-> 0, den |-> 1]
    /\ bench_hosts_number = 0
    /\ rounds = <<>>
    /\ IdleSink
    /\ m_pc = "start"
    /\ m_cases \in {c \in [1..2 -> FailureCases] :
                        \A i \in 1..2 : c[i].err \in SiteErrors(c[i].site)}
    /\ m_out = <<>>

\* both runs return: process_host_inner with Err, process_host with the Response
ProcessHostFails ==
    /\ m_pc = "start"
    /\ \E h \in HostNames :
         m_out' = [i \in 1..2 |->
                     ProcessHostResponse(h, Err(FailureMessage(m_cases[i].site, m_cases[i].err)))]
    /\ m_pc' = "done"
    /\ UNCHANGED m_cases
    /\ UNCHANGED <<fanVars, benchVars, sinkVars>>

NextMsg == ProcessHostFails

SpecMsg == InitMsg /\ [][NextMsg]_vars

\* ============================================================ benchmark
\* let mut rate_numeric: isize = 2
RateNumericStart == 2
\* let mut bench_hosts_number: usize = 10
BenchHostsNumberStart == 10
\* while error_rate <= 10.0
ErrorRateLimit == 10

\* f64 values that arise: a quotient of two small integers, or NaN
F64(n) == [nan |-> FALSE, num |-> n, den |-> 1]
\* ko as f64 / len as f64: 0.0 / 0.0 is NaN (ko <= len, so no x / 0.0 with x > 0)
F64Div(a, b) ==
    IF b = 0 THEN [nan |-> TRUE, num |-> 0, den |-> 1]
    ELSE [nan |-> FALSE, num |-> a, den |-> b]
\* x <= k: false when x is NaN
F64Le(x, k) == ~x.nan /\ x.num <= k * x.den

\* str::contains
Contains(str, sig) == \E i \in DOMAIN str : str[i] = sig

\* What a probe of one host can answer: success, success whose output shows
\* the signature, the overload failure, another failure.
ProbeResponses ==
    << [status |-> TRUE, result |-> <<"up 3 days">>],
       [status |-> TRUE, result |-> <<"[-42]">>],
       [status |-> FALSE, result |-> <<"Failed establishing handshake: ", "[-42]", " Failed getting banner">>],
       [status |-> FALSE, result |-> <<"Error connecting via agent: ", "[-18]", " Username/PublicKey combination invalid">>] >>

\* The collected Vec<Response> of a round over n hosts. Only the number of
\* each kind of answer matters to the loop, so one order per combination.
ProbeResults(n) ==
    {[i \in 1..n |-> IF i <= a THEN ProbeResponses[1]
                     ELSE IF i <= a + b THEN ProbeResponses[2]
                     ELSE IF i <= a + b + c THEN ProbeResponses[3]
                     ELSE ProbeResponses[4]] :
        a \in 0..n, b \in 0..n, c \in 0..n}

InitBench ==
    /\ props = [maximum_connections |-> 1, agent_parallelism |-> 1,
                timeout_socket |-> 1000, timeout_ssh |-> 600000]
    /\ hosts = <<>>
    /\ command \in Commands
    /\ called = FALSE
    /\ threads_pool = SemNew(0)
    /\ agent_pool = SemNew(0)
    /\ pc = <<>>
    /\ threads_guard = <<>>
    /\ guard = <<>>
    /\ sess_timeout = <<>>
    /\ channel_buffer = <<>>
    /\ yielded = <<>>
    /\ acquires = [threads |-> 0, agent |-> 0]
    /\ releases = [threads |-> 0, agent |-> 0]
    /\ b_pc = "start"
    /\ hosts_len \in 0..MaxBenchHosts
    /\ threads_number \in 0..MaxThreadsNumber
    /\ rate_numeric = 0
    /\ error_rate = F64(0)
    /\ bench_hosts_number = 0
    /\ rounds = <<>>
    /\ IdleSink
    /\ IdleMsg

\* hosts.is_empty()
HostsIsEmpty_never(len) == FALSE

HostsIsEmpty(len) == len = 0

\* if hosts.is_empty() { exit(1) }; the initial values of the loop
BenchStart ==
    /\ b_pc = "start"
    /\ IF HostsIsEmpty(hosts_len)
       THEN /\ b_pc' = "exit"
            /\ UNCHANGED <<rate_numeric, error_rate, bench_hosts_number>>
       ELSE /\ b_pc' = "loop"
            /\ rate_numeric' = RateNumericStart
            /\ error_rate' = F64(0)
            /\ bench_hosts_number' = BenchHostsNumberStart
    /\ UNCHANGED <<hosts_len, threads_number, rounds>>
    /\ UNCHANGED <<fanVars, sinkVars, msgVars>>

\* while error_rate <= 10.0 && rate_numeric <= threads_number as isize
LoopCond(rate, limit) ==
    /\ F64Le(error_rate, ErrorRateLimit)
    /\ rate <= limit

\* the overload failures among the answers of a round
KoCount(res) ==
    Cardinality({i \in DOMAIN res : ~res[i].status /\ Contains(res[i].result, "[-42]")})

\* rate_numeric += 1
NextRate_skip(rate) == rate + 2

NextRate(rate) == rate + 1

\* bench_hosts_number * ((rate_numeric as usize - 1) / rate_numeric as usize)
NextBenchHostsNumber(n, rate) == n * ((rate - 1) \div rate)

\* one pass of the loop body
BenchRound ==
    /\ b_pc = "loop"
    /\ LoopCond(rate_numeric, threads_number)
    /\ LET slice_size == IF hosts_len <= bench_hosts_number
                         THEN hosts_len ELSE bench_hosts_number
       IN \E res \in ProbeResults(slice_size) :
            LET ko == KoCount(res)
            IN  /\ error_rate' = F64Div(ko, Len(res))
                /\ rounds' = Append(rounds,
                      [rate |-> rate_numeric, size |-> Len(res), ko |-> ko,
                       ok |-> Cardinality({i \in DOMAIN res : res[i].status})])
    /\ rate_numeric' = NextRate(rate_numeric)
    /\ bench_hosts_number' = NextBenchHostsNumber(bench_hosts_number, rate_numeric')
    /\ UNCHANGED <<b_pc, hosts_len, threads_number>>
    /\ UNCHANGED <<fanVars, sinkVars, msgVars>>

\* the loop condition fails: benchmark returns
BenchReturn ==
    /\ b_pc = "loop"
    /\ ~LoopCond(rate_numeric, threads_number)
    /\ b_pc' = "done"
    /\ UNCHANGED <<hosts_len, threads_number, rate_numeric, error_rate,
                   bench_hosts_number, rounds>>
    /\ UNCHANGED <<fanVars, sinkVars, msgVars>>

NextBench ==
    \/ BenchStart
    \/ BenchRound
    \/ BenchReturn

SpecBench == InitBench /\ [][NextBench]_vars

\* ========================================================== result sink
\* Responses of misc.rs: hostname and result are token sequences. A success,
\* a success whose output shows a signature, the two our-side failures (one
\* host with a port, one without) and a failure of the remote side.
SinkResponses ==
    { [result |-> <<"up 3 days">>, hostname |-> <<"10.0.0.1", ":", "22">>,
       process_time |-> "1s", status |-> TRUE],
      [result |-> <<"error ", "[-19]", " in log">>, hostname |-> <<"10.0.0.2">>,
       process_time |-> "1s", status |-> TRUE],
      [result |-> <<"Failed establishing handshake: ", "[-42]", " agent protocol">>,
       hostname |-> <<"10.0.0.1", ":", "22">>, process_time |-> "6s", status |-> FALSE],
      [result |-> <<"[-19]", " public key unverified">>, hostname |-> <<"10.0.0.2">>,
       process_time |-> "2s", status |-> FALSE],
      [result |-> <<"Error connecting via agent: ", "[-18]", " authentication failed">>,
       hostname |-> <<"10.0.0.1", ":", "22">>, process_time |-> "2s", status |-> FALSE] }

SinkOk == [result |-> <<"up 3 days">>, hostname |-> <<"10.0.0.1", ":", "22">>,
           process_time |-> "1s", status |-> TRUE]
SinkOurSide == [result |-> <<"Failed establishing handshake: ", "[-42]", " agent protocol">>,
                hostname |-> <<"10.0.0.1", ":", "22">>, process_time |-> "6s", status |-> FALSE]
SinkRemote == [result |-> <<"Error connecting via agent: ", "[-18]", " authentication failed">>,
               hostname |-> <<"10.0.0.1", ":", "22">>, process_time |-> "2s", status |-> FALSE]

\* the completion stream of the scenario of section 8: 5 successes and 2
\* failures, one of them our-side
Scenario == <<SinkOk, SinkOurSide, SinkOk, SinkOk, SinkRemote, SinkOk, SinkOk>>

\* serde_json::to_string_pretty(&received)
ToJson(r) == [lex |-> "object", obj |-> r]

\* serde_json::to_writer / to_string of a slice: [v,v,..,v]
RECURSIVE JsonArray(_)
JsonArray(data) ==
    IF data = <<>> THEN <<Lex("["), Lex("]")>>
    ELSE IF Len(data) = 1 THEN <<Lex("["), ToJson(data[1]), Lex("]")>>
    ELSE LET rest == JsonArray(Tail(data))
         IN  <<Lex("["), ToJson(data[1]), Lex(",")>> \o Tail(rest)

InitSink ==
    /\ props = [maximum_connections |-> 1, agent_parallelism |-> 1,
                timeout_socket |-> 1000, timeout_ssh |-> 600000]
    /\ hosts = <<>>
    /\ command \in Commands
    /\ called = FALSE
    /\ threads_pool = SemNew(0)
    /\ agent_pool = SemNew(0)
    /\ pc = <<>>
    /\ threads_guard = <<>>
    /\ guard = <<>>
    /\ sess_timeout = <<>>
    /\ channel_buffer = <<>>
    /\ yielded = <<>>
    /\ acquires = [threads |-> 0, agent |-> 0]
    /\ releases = [threads |-> 0, agent |-> 0]
    /\ b_pc = "idle"
    /\ hosts_len = 0
    /\ threads_number = 0
    /\ rate_numeric = 0
    /\ error_rate = [nan |-> FALSE, num |-> 0, den |-> 1]
    /\ bench_hosts_number = 0
    /\ rounds = <<>>
    /\ IdleMsg
    /\ s_pc = "start"
    /\ \/ /\ rx \in SeqsUpTo(SinkResponses, MaxItems)
          /\ queue_len \in 0..(MaxItems + 1)
       \/ /\ rx = Scenario
          /\ queue_len = Len(Scenario)
    /\ received = <<>>
    /\ file = NoDoc
    /\ ledger = NoFile
    /\ ok_count = 0
    /\ error_count = 0
    /\ total = [pos |-> 0, msg |-> <<>>]
    /\ console = <<>>

\* save_to_console: the whole array on stdout
SaveToConsole(data) == console' = Append(console, JsonArray(data))

\* save_to_file(conf, data) with data = the Responses in rx
SaveToFile ==
    /\ s_pc = "start"
    /\ s_pc' = "saved"
    /\ \E filename_given, created, written \in BOOLEAN :
         IF ~filename_given \/ ~created
         THEN /\ SaveToConsole(rx)
              /\ UNCHANGED file
         ELSE /\ file' = IF written THEN JsonArray(rx) ELSE <<>>
              /\ UNCHANGED console
    /\ UNCHANGED <<rx, received, queue_len, ledger, ok_count, error_count, total>>
    /\ UNCHANGED <<fanVars, benchVars, msgVars>>

\* incremental_save up to the loop: both files, the progress bar, "[\r\n"
IncrementalSaveStart ==
    /\ s_pc = "start"
    /\ \E created \in {"both", "no result file", "no ledger file"} :
         CASE created = "no result file" ->
                /\ s_pc' = "failed"
                /\ UNCHANGED <<file, ledger>>
           [] created = "no ledger file" ->
                /\ s_pc' = "failed"
                /\ file' = <<>>
                /\ UNCHANGED ledger
           [] created = "both" ->
                /\ s_pc' = "loop"
                /\ file' = <<Lex("["), Lex("ws")>>
                /\ ledger' = <<>>
    /\ UNCHANGED <<rx, received, queue_len, ok_count, error_count, total, console>>
    /\ UNCHANGED <<fanVars, benchVars, msgVars>>

\* error_string.contains("[-42]") || error_string.contains("[-19]")
OurSideError_only42(error_string) == Contains(error_string, "[-42]")

OurSideError(error_string) ==
    Contains(error_string, "[-42]") \/ Contains(error_string, "[-19]")

\* received.hostname.split(':').collect::<Vec<&str>>()[0]
SplitFirst(hostname) ==
    LET colons == {i \in DOMAIN hostname : hostname[i] = ":"}
    IN  IF colons = {} THEN hostname
        ELSE SubSeq(hostname, 1, (CHOOSE i \in colons : \A j \in colons : i <= j) - 1)

\* if received.status { ok += 1 } else { ko += 1 }
NextCounts_remoteonly(o, k, r) ==
    IF r.status THEN <<o + 1, k>>
    ELSE IF OurSideError(r.result) THEN <<o, k>> ELSE <<o, k + 1>>

NextCounts(o, k, r) == IF r.status THEN <<o + 1, k>> ELSE <<o, k + 1>>

\* one pass of the loop in which rx.recv() returns a Response
Recv ==
    /\ s_pc = "loop"
    /\ Len(received) < queue_len
    /\ rx # <<>>
    /\ LET r == Head(rx)
           counts == NextCounts(ok_count, error_count, r)
       IN  /\ rx' = Tail(rx)
           /\ received' = Append(received, r)
           /\ ok_count' = counts[1]
           /\ error_count' = counts[2]
           /\ IF ~r.status /\ OurSideError(r.result)
              THEN /\ ledger' = ledger \o SplitFirst(r.hostname) \o <<"\n">>
                   /\ UNCHANGED <<total, file>>
              ELSE /\ total' = [pos |-> total.pos + 1, msg |-> <<counts[1], counts[2]>>]
                   /\ file' = file \o <<ToJson(r), Lex(","), Lex("ws")>>
                   /\ UNCHANGED ledger
    /\ UNCHANGED <<s_pc, queue_len, console>>
    /\ UNCHANGED <<fanVars, benchVars, msgVars>>

\* whether "\n]" is written when the loop is left because all queue_len
\* passes were made ("exhausted") or by break ("disconnected")
WritesClosing_notafterbreak(exit) == exit = "exhausted"

WritesClosing(exit) == TRUE

\* the statements after the loop: "\n]", removal of an empty ledger
AfterLoop(exit) ==
    /\ s_pc' = "done"
    /\ file' = IF WritesClosing(exit) THEN file \o <<Lex("ws"), Lex("]")>> ELSE file
    /\ ledger' = IF ledger = <<>> THEN NoFile ELSE ledger
    /\ UNCHANGED <<rx, received, queue_len, ok_count, error_count, total, console>>
    /\ UNCHANGED <<fanVars, benchVars, msgVars>>

\* the loop has made its queue_len passes
LoopExhausted ==
    /\ s_pc = "loop"
    /\ Len(received) >= queue_len
    /\ AfterLoop("exhausted")

\* rx.recv() returns Err (all senders gone, nothing buffered): break
RecvDisconnected ==
    /\ s_pc = "loop"
    /\ Len(received) < queue_len
    /\ rx = <<>>
    /\ AfterLoop("disconnected")

NextSink ==
    \/ SaveToFile
    \/ IncrementalSaveStart
    \/ Recv
    \/ LoopExhausted
    \/ RecvDisconnected

SpecSink == InitSink /\ [][NextSink]_vars

\* ------------------------------------------------------------ vocabulary
Terminal(p) == pc[p] \in {"done_ok", "done_err"}
AllTerminal == called /\ \A p \in DOMAIN pc : Terminal(p)
SessionHolders == {p \in DOMAIN pc : threads_guard[p]}
AgentHolders == {p \in DOMAIN pc : guard[p]}

\* the stage of section 4.1 a position of process_host_inner belongs to:
\* the last stage completed
StageOf(l) ==
    CASE l \in {"start", "wait_threads", "resolve"} -> "Init"
      [] l = "connect" -> "Resolved"
      [] l \in {"session", "handshake"} -> "Connected"
      [] l \in {"acquire_agent", "wait_agent", "agent_connect", "userauth"} -> "HandshakeDone"
      [] l = "channel" -> "AgentAuthenticated"
      [] l = "exec" -> "ChannelOpen"
      [] l = "read" -> "Executing"
      [] l = "return" -> "OutputCollected"
      [] l = "done_ok" -> "DoneSuccess"
      [] l = "done_err" -> "DoneFailure"

StageRank(st) ==
    CASE st = "Init" -> 0
      [] st = "Resolved" -> 1
      [] st = "Connected" -> 2
      [] st = "HandshakeDone" -> 3
      [] st = "AgentAuthenticated" -> 4
      [] st = "ChannelOpen" -> 5
      [] st = "Executing" -> 6
      [] st = "OutputCollected" -> 7
      [] st \in {"DoneSuccess", "DoneFailure"} -> 8

Count(seq, P(_)) == Cardinality({i \in DOMAIN seq : P(seq[i])})

\* ------------------------------------------------------------------ C1
\* C1: in every reachable state the number of pipelines holding a session
\* ticket is at most maximum_connections and the number holding an agent
\* ticket is at most agent_parallelism.
C1_TicketBounds ==
    /\ Cardinality(SessionHolders) <= props.maximum_connections
    /\ Cardinality(AgentHolders) <= props.agent_parallelism

\* both pools are exhausted and a pipeline waits for an agent ticket
C1_Witness ==
    /\ called
    /\ props.agent_parallelism >= 1
    /\ Cardinality(AgentHolders) = props.agent_parallelism
    /\ Cardinality(SessionHolders) = props.maximum_connections
    /\ \E p \in DOMAIN pc : pc[p] = "wait_agent"

\* ------------------------------------------------------------------ C2
\* C2: a terminal pipeline holds neither ticket; once every launched
\* pipeline is terminal both pools are back at full capacity and each
\* pool's acquires equal its releases.
C2_TicketsReleased ==
    /\ \A p \in DOMAIN pc : Terminal(p) => ~threads_guard[p] /\ ~guard[p]
    /\ AllTerminal =>
        /\ threads_pool = SemNew(props.maximum_connections)
        /\ agent_pool = SemNew(props.agent_parallelism)
        /\ acquires = releases

\* a fan-out is over in which a pipeline failed while it held the agent ticket
C2_Witness ==
    /\ AllTerminal
    /\ acquires.agent >= 1
    /\ \E i \in DOMAIN yielded :
         /\ ~yielded[i].status
         /\ Head(yielded[i].result) \in {"Failed connecting to agent: ", "Error connecting via agent: "}

\* ------------------------------------------------------------------ C3
\* C3: a fan-out over N hosts yields at most one outcome per pipeline, and
\* once all pipelines are terminal exactly N outcomes, one per input host.
C3_OneOutcomePerHost ==
    /\ Len(yielded) = Cardinality({p \in DOMAIN pc : Terminal(p)})
    /\ Len(yielded) <= Len(hosts)
    /\ AllTerminal =>
        /\ Len(yielded) = Len(hosts)
        /\ \A h \in HostNames :
             Count(yielded, LAMBDA r : r.hostname = h) = Count(hosts, LAMBDA x : x = h)

\* a fan-out is over that mixed a success and a failure
C3_Witness ==
    /\ AllTerminal
    /\ Len(hosts) >= 2
    /\ \E i, j \in DOMAIN yielded : yielded[i].status /\ ~yielded[j].status

\* ------------------------------------------------------------------ C4
\* C4: with both capacities at least 1, every launched pipeline eventually
\* holds a session ticket and eventually is terminal.
C4_NoStarvation ==
    \A p \in 1..MaxHosts :
        /\ (called /\ p \in DOMAIN pc /\ props.maximum_connections >= 1
              /\ props.agent_parallelism >= 1)
             ~> (p \in DOMAIN pc /\ pc[p] \notin {"start", "wait_threads"})
        /\ (called /\ p \in DOMAIN pc /\ props.maximum_connections >= 1
              /\ props.agent_parallelism >= 1)
             ~> (p \in DOMAIN pc /\ Terminal(p))

\* a pipeline that had to wait for a session ticket got one and finished
C4_Witness ==
    /\ AllTerminal
    /\ acquires.threads > props.maximum_connections
    /\ props.agent_parallelism >= 1

\* ------------------------------------------------------------------ C5
\* C5: an agent ticket is held only after the handshake and before the
\* channel is opened (or the pipeline is terminal), and only by a pipeline
\* that also holds a session ticket.
C5_AgentWindow ==
    \A p \in DOMAIN pc :
        /\ guard[p] => pc[p] \in {"agent_connect", "userauth"} /\ threads_guard[p]
        /\ StageOf(pc[p]) \in {"AgentAuthenticated", "ChannelOpen", "Executing",
                               "OutputCollected", "DoneSuccess", "DoneFailure"} => ~guard[p]
        /\ pc[p] \in {"agent_connect", "userauth"} => guard[p]

\* a pipeline has authenticated and given its agent ticket back
C5_Witness ==
    \E p \in DOMAIN pc :
        /\ StageOf(pc[p]) \in {"AgentAuthenticated", "ChannelOpen"}
        /\ releases.agent >= 1
        /\ threads_guard[p]

\* ------------------------------------------------------------------ C6
\* C6: the timeout set on a session is the configured timeout_ssh.
C6_SessionTimeoutIsConfigured ==
    \A p \in DOMAIN pc :
        sess_timeout[p] # NoSession => sess_timeout[p] = props.timeout_ssh

\* ------------------------------------------------------------------ C7
FailureMessages ==
    IoErrors \cup SshErrors
    \cup {<<"Failed converting address">>, <<"Error initializing session">>}
    \cup {<<t>> \o e : t \in {"Failed establishing handshake: ", "Failed connecting to agent: ",
                              "Error connecting via agent: ", "Failed opening channel: ",
                              "Failed executing command in channel: "}, e \in SshErrors}
    \cup {<<"Error reading result of work: ">> \o e : e \in IoErrors}

C7_Step(p) ==
    LET old == StageRank(StageOf(pc[p]))
        new == StageRank(StageOf(pc'[p]))
        out == yielded'[Len(yielded')]
    IN  /\ Terminal(p) => pc'[p] = pc[p]
        /\ new >= old
        /\ new > old + 1 => pc'[p] = "done_err"
        /\ (~Terminal(p) /\ pc'[p] = "done_ok") =>
              /\ pc[p] = "return"
              /\ Len(yielded') = Len(yielded) + 1
              /\ out.status /\ out.result = channel_buffer[p]
        /\ (~Terminal(p) /\ pc'[p] = "done_err") =>
              /\ pc[p] # "return"
              /\ Len(yielded') = Len(yielded) + 1
              /\ ~out.status /\ out.result \in FailureMessages

\* C7: every pipeline moves through the stages forward, one at a time, and
\* stays put once terminal; it yields status = true with the captured
\* output exactly when it returns after output collection, and status =
\* false with the failure's message exactly when a stage fails.
C7_ForwardStagesAndStatus ==
    [][called => \A p \in DOMAIN pc : C7_Step(p)]_vars

\* a pipeline succeeded with non-empty output and another failed
C7_Witness ==
    /\ \E p \in DOMAIN pc : pc[p] = "done_ok"
    /\ \E p \in DOMAIN pc : pc[p] = "done_err"
    /\ \E i \in DOMAIN yielded : yielded[i].status /\ yielded[i].result # <<>>

\* ------------------------------------------------------------------ C8
\* the overload rate of a round exceeds 10%
ExceedsTenPercent(r) == 10 * r.ko > r.size

\* C8: no probe round follows a round whose overload rate exceeds 10%, and
\* the calibrator stops only after such a round or once the concurrency
\* level has passed the configured maximum.
C8_StopsOnOverload ==
    /\ \A i \in 1..(Len(rounds) - 1) : ~ExceedsTenPercent(rounds[i])
    /\ b_pc = "done" =>
        \/ rate_numeric > threads_number
        \/ rounds # <<>> /\ ExceedsTenPercent(rounds[Len(rounds)])

\* ------------------------------------------------------------------ C9
\* every session above concurrency K was an overload failure, every session
\* at or below K a success
FollowsScenario(K) ==
    \A i \in DOMAIN rounds :
        IF rounds[i].rate > K THEN rounds[i].ko = rounds[i].size
        ELSE rounds[i].ok = rounds[i].size /\ rounds[i].ko = 0

\* C9: in the scenario with threshold K (2 <= K < configured maximum) the
\* last concurrency level probed is K or K + 1.
C9_StopsAtK ==
    \A K \in 2..(threads_number - 1) :
        (b_pc = "done" /\ rounds # <<>> /\ FollowsScenario(K)) =>
            rounds[Len(rounds)].rate \in {K, K + 1}

\* ----------------------------------------------------------------- C10
\* C10: the k-th probe round runs at concurrency k + 1 (2, 3, 4, ...), never
\* above the configured maximum, and no round runs when the maximum is
\* below 2.
C10_LevelsStepByOne ==
    /\ \A i \in DOMAIN rounds :
         /\ rounds[i].rate = i + 1
         /\ rounds[i].rate <= threads_number
    /\ threads_number < 2 => rounds = <<>>
    /\ b_pc = "loop" => rate_numeric = Len(rounds) + 2

\* the calibrator has probed two levels and returned
C10_Witness ==
    /\ b_pc = "done"
    /\ Len(rounds) >= 2
    /\ rounds[Len(rounds)].rate = threads_number

\* ----------------------------------------------------------------- C11
\* C11: given an empty host collection the calibrator exits at once: it
\* never enters its loop and runs no probe round.
C11_EmptyHostsHalt ==
    hosts_len = 0 =>
        /\ rounds = <<>>
        /\ b_pc \in {"start", "exit"}

\* the calibrator has exited on an empty collection although the maximum
\* would have allowed a round
C11_Witness ==
    /\ b_pc = "exit"
    /\ hosts_len = 0
    /\ threads_number >= RateNumericStart

\* ----------------------------------------------------------------- C19
\* the probe size of the i-th round by the stated recurrence, before the
\* cap at the host count: 10, then floor(size * (c - 1) / c) for the
\* concurrency c reached after each round
RECURSIVE StatedProbeSize(_)
StatedProbeSize(i) ==
    IF i = 1 THEN 10
    ELSE (StatedProbeSize(i - 1) * i) \div (i + 1)

Min(a, b) == IF a <= b THEN a ELSE b

\* C19: the i-th round probes min(host count, stated size) hosts, and at
\* least one.
C19_ProbeSizes ==
    \A i \in DOMAIN rounds :
        /\ rounds[i].size = Min(hosts_len, StatedProbeSize(i))
        /\ rounds[i].size > 0

\* ----------------------------------------------------------------- C17
\* the positions from address resolution to output collection
Active(p) == pc[p] \notin {"start", "wait_threads", "done_ok", "done_err"}

\* C17: a pipeline is between address resolution and output collection only
\* while it holds a session ticket; one that has no ticket yet has done
\* nothing, so at most maximum_connections pipelines are active.
C17_TicketBeforeAnyWork ==
    /\ \A p \in DOMAIN pc :
        /\ Active(p) => threads_guard[p]
        /\ pc[p] \in {"start", "wait_threads"} =>
              /\ ~threads_guard[p]
              /\ sess_timeout[p] = NoSession
              /\ channel_buffer[p] = NoBuffer
    /\ Cardinality({p \in DOMAIN pc : Active(p)}) <= props.maximum_connections

\* one host waits for a ticket while another is past authentication
C17_Witness ==
    /\ \E p \in DOMAIN pc : pc[p] = "wait_threads"
    /\ \E p \in DOMAIN pc : pc[p] \in {"channel", "exec", "read", "return"}

\* ----------------------------------------------------------------- C18
\* the nine failure kinds of section 4.1
FailureKind(site) ==
    CASE site \in {"to_socket_addrs", "next"} -> "address resolution"
      [] site \in {"connect_timeout", "Async::new"} -> "connect"
      [] site \in {"Session::new", "set_tcp_stream"} -> "session initialization"
      [] site = "handshake" -> "handshake"
      [] site \in {"agent", "agent.connect"} -> "agent connect"
      [] site = "userauth_agent" -> "agent authentication"
      [] site = "channel_session" -> "channel open"
      [] site = "exec" -> "command execution"
      [] site = "read_to_string" -> "output read"

\* C18: every failure message carries more than the collaborator's error (a
\* tag of the stage), and failures of different kinds never give the same
\* message.
C18_StageTagged ==
    m_pc = "done" =>
        /\ \A i \in 1..2 : ~m_out[i].status /\ m_out[i].result # m_cases[i].err
        /\ FailureKind(m_cases[1].site) # FailureKind(m_cases[2].site)
              => m_out[1].result # m_out[2].result

\* ------------------------------------------------------ sink vocabulary
\* an our-side failure: a failure whose message shows [-42] or [-19]
OurSide(r) == ~r.status /\ \E i \in DOMAIN r.result : r.result[i] \in {"[-42]", "[-19]"}

\* the part of a hostname before its first ':'
RECURSIVE BareHostname(_)
BareHostname(h) ==
    IF h = <<>> \/ Head(h) = ":" THEN <<>>
    ELSE <<Head(h)>> \o BareHostname(Tail(h))

\* the Responses of the objects of a document, in order
Records(doc) ==
    LET objs == SelectSeq(doc, LAMBDA t : t.lex = "object")
    IN  [i \in DOMAIN objs |-> objs[i].obj]

\* the lines a ledger must hold for the diverted Responses ds
RECURSIVE LedgerLines(_)
LedgerLines(ds) ==
    IF ds = <<>> THEN <<>>
    ELSE BareHostname(Head(ds).hostname) \o <<"\n">> \o LedgerLines(Tail(ds))

LedgerText == IF ledger = NoFile THEN <<>> ELSE ledger

Kept == SelectSeq(received, LAMBDA r : ~OurSide(r))
Diverted == SelectSeq(received, OurSide)

\* a JSON array read back: "[", values separated by ",", "]", white space
\* anywhere between them
ParseArray(doc) ==
    LET toks == SelectSeq(doc, LAMBDA t : t.lex # "ws")
        n == Len(toks)
        inner == IF n >= 2 THEN SubSeq(toks, 2, n - 1) ELSE <<>>
        wellformed ==
            /\ n >= 2
            /\ toks[1].lex = "["
            /\ toks[n].lex = "]"
            /\ inner = <<>> \/ Len(inner) % 2 = 1
            /\ \A i \in DOMAIN inner :
                 inner[i].lex = (IF i % 2 = 1 THEN "object" ELSE ",")
    IN  [ok |-> wellformed, items |-> IF wellformed THEN Records(inner) ELSE <<>>]

\* ----------------------------------------------------------------- C12
\* C12: after k items ok_count is the number of consumed successes and
\* error_count the number of consumed failures, diverted ones included, so
\* they sum to k (5 and 2 in the scenario of section 8); neither decreases.
C12_Counters ==
    /\ [](/\ ok_count = Count(received, LAMBDA r : r.status)
          /\ error_count = Count(received, LAMBDA r : ~r.status)
          /\ ok_count + error_count = Len(received)
          /\ received = Scenario => ok_count = 5 /\ error_count = 2)
    /\ [][ok_count' >= ok_count /\ error_count' >= error_count]_vars

\* the scenario has been consumed to its end
C12_Witness ==
    /\ s_pc = "done"
    /\ received = Scenario

\* ----------------------------------------------------------------- C13
\* C13: the ledger holds the bare hostnames of exactly the our-side
\* failures, the document the full records of all other outcomes, both in
\* arrival order; records + ledger entries = items consumed.
C13_OneDestination ==
    s_pc \in {"loop", "done"} =>
        /\ Records(file) = Kept
        /\ LedgerText = LedgerLines(Diverted)
        /\ Len(Records(file)) + Count(LedgerText, LAMBDA t : t = "\n") = Len(received)

\* a success showing a signature and a remote failure were recorded, a
\* [-19] failure and a [-42] failure of a host with a port were diverted
C13_Witness ==
    /\ s_pc = "done"
    /\ \E i \in DOMAIN Kept : Kept[i].status /\ Contains(Kept[i].result, "[-19]")
    /\ \E i \in DOMAIN Kept : ~Kept[i].status
    /\ \E i \in DOMAIN Diverted : Contains(Diverted[i].result, "[-19]")
    /\ LedgerText # <<>>

\* ----------------------------------------------------------------- C14
\* C14: after k items the progress position is k and the message shows the
\* current ok_count and error_count.
C14_ProgressPerItem ==
    s_pc \in {"loop", "done"} =>
        /\ total.pos = Len(received)
        /\ received # <<>> => total.msg = <<ok_count, error_count>>

\* ----------------------------------------------------------------- C15
\* C15: after a run that ended normally the document parses back to the
\* non-diverted outcomes in the order written.
C15_RoundTrip ==
    s_pc = "done" =>
        /\ ParseArray(file).ok
        /\ ParseArray(file).items = Kept

\* ----------------------------------------------------------------- C16
\* what the console shows of documents printed to it
Printed == {r \in SinkResponses : \E i \in DOMAIN console : \E j \in DOMAIN ParseArray(console[i]).items :
                ParseArray(console[i]).items[j] = r}

\* C16: when no output file could be created every outcome is on the
\* console: the data of save_to_file, the stream of incremental_save.
C16_ConsoleFallback ==
    /\ (s_pc = "saved" /\ file = NoDoc) =>
          /\ console # <<>>
          /\ ParseArray(console[1]).items = rx
    /\ s_pc = "failed" =>
          \A i \in 1..Len(rx) : i <= queue_len => rx[i] \in Printed

\* ----------------------------------------------------------------- C20
Closings(doc) == Count(doc, LAMBDA t : t.lex = "]")

\* C20: the document starts with its opening delimiter before any item is
\* consumed, has no closing delimiter while the loop runs, and after the
\* loop, however it ended, exactly one, as its last lexeme; it is not
\* written to again.
C20_Framing ==
    /\ [](/\ s_pc \in {"loop", "done"} => file[1].lex = "["
          /\ s_pc = "loop" => Closings(file) = 0
          /\ s_pc = "done" => Closings(file) = 1 /\ file[Len(file)].lex = "]")
    /\ [][s_pc = "done" => file' = file]_vars

\* the loop was left by break after a record had been written
C20_Witness ==
    /\ s_pc = "done"
    /\ Len(received) < queue_len
    /\ Records(file) # <<>>

====
